---- MODULE Spec2Model ----
(***************************************************************************)
(* Model of the platform-engineering demo application:                     *)
(*   - the three serverless relay functions (multi-agent,                  *)
(*     release-readiness, workflow-diagnostic) with their access gate,     *)
(*   - the browser DemoRunner (direct / dev-proxy transport with the       *)
(*     on-device history fallback, and the cloud/local runner that saves   *)
(*     to the remote table only),                                          *)
(*   - the run store (remote demo_runs table and the localStorage list).   *)
(***************************************************************************)
EXTENDS Integers, Sequences, FiniteSets, TLC

(***************************************************************************)
(* Bounds of the model                                                     *)
(***************************************************************************)
MaxRequests == 1

(***************************************************************************)
(* JavaScript values                                                       *)
(***************************************************************************)
Undefined == "<undefined>"

\* the empty string taken for a value: only undefined is falsy
Falsy_m(v) == v = Undefined

\* !v for the values the model uses (undefined and the empty string)
Falsy(v) == v \in {Undefined, ""}

\* a || b
OrElse(a, b) == IF Falsy(a) THEN b ELSE a

\* Strings whose content matters are sequences of tokens; every decimal digit
\* is a token of its own so that String.prototype.includes can be computed.
RECURSIVE Digits(_)
Digits(n) ==
    IF n < 10 THEN <<ToString(n)>> ELSE Digits(n \div 10) \o <<ToString(n % 10)>>

\* msg.includes(pat)
Includes(msg, pat) ==
    \E i \in 0..(Len(msg) - Len(pat)) :
        \A j \in 1..Len(pat) : msg[i + j] = pat[j]

(***************************************************************************)
(* The model provider (api.anthropic.com) as seen through fetch            *)
(***************************************************************************)
ErrorStatuses == {401, 429, 500, 529}
ErrorBodies == {"{\"type\":\"error\"}", "upstream unavailable"}
ReplyTexts == {"Root cause: ..."}

FetchThrows ==
    [kind |-> "throw", status |-> 0, json |-> FALSE, raw |-> "", text |-> Undefined]

HttpErrors ==
    { [kind |-> "http", status |-> s, json |-> TRUE, raw |-> b, text |-> Undefined] :
        s \in ErrorStatuses, b \in ErrorBodies }

\* 200 with {content:[{text}]}, 200 with an empty content list, 200 with a
\* body that is not JSON
HttpOks ==
    { [kind |-> "http", status |-> 200, json |-> TRUE, raw |-> "{content}", text |-> t] :
        t \in ReplyTexts \cup {Undefined} }
    \cup { [kind |-> "http", status |-> 200, json |-> FALSE, raw |-> "<html>", text |-> Undefined] }

ProviderOutcomes == {FetchThrows} \cup HttpErrors \cup HttpOks

\* response.ok
ResponseOk(out) == out.kind = "http" /\ out.status \in 200..299

\* messages of the exceptions thrown by fetch and by response.json()
MsgFetchFailed == <<"Failed to fetch">>
MsgNotJson == <<"Unexpected token '<', \"<html>\" is not valid JSON">>

(***************************************************************************)
(* Relay functions: supabase/functions/<name>/index.ts                     *)
(***************************************************************************)
Functions == {"multi-agent", "release-readiness", "workflow-diagnostic"}

\* the payload field each function destructures and requires
RequiredField(fn) ==
    CASE fn = "multi-agent" -> "infrastructureState"
      [] fn = "release-readiness" -> "qualityMetrics"
      [] fn = "workflow-diagnostic" -> "errorLog"

\* the reliability assessment requested before the cost analysis
Stages_m(fn) ==
    IF fn = "multi-agent"
    THEN <<"reliability_assessment", "cost_analysis", "final_recommendation">>
    ELSE IF fn = "release-readiness" THEN <<"evaluation">> ELSE <<"diagnosis">>

\* the provider calls a function makes, in order
Stages(fn) ==
    IF fn = "multi-agent"
    THEN <<"cost_analysis", "reliability_assessment", "final_recommendation">>
    ELSE IF fn = "release-readiness" THEN <<"evaluation">> ELSE <<"diagnosis">>

\* the default each function substitutes for an empty reply text
EmptyTextDefault(fn) ==
    CASE fn = "multi-agent" -> ""
      [] fn = "release-readiness" -> "No evaluation generated"
      [] fn = "workflow-diagnostic" -> "No diagnosis generated"

MsgInvalidPassword == <<"Invalid demo access password. Please enter the correct password.">>
MsgRequired(fn) == <<RequiredField(fn), " is required">>
MsgKeyNotConfigured == <<"Claude API key not configured">>
MsgRateLimit == <<"Rate limit exceeded. Please try again later.">>
MsgInvalidKey == <<"Invalid API key. Please check your Anthropic API key.">>
MsgClaudeApiError == <<"Claude API error">>

\* callClaude: throw new Error(`Claude API error: ${response.status}`)
MsgClaudeStatus(status) == <<"Claude API error: ">> \o Digits(status)

\* messages of the SyntaxError thrown by req.json() on a body that is not JSON
BodyParseErrors ==
    { <<"Unexpected end of JSON input">>,
      <<"Unexpected token 'x', \"x", "4", "2", "9", "\" is not valid JSON">> }

NoFields == {}
NoText == [f \in NoFields |-> ""]

ErrorResponse(status, msg) ==
    [status |-> status, error |-> msg, data |-> NoText]

SuccessResponse(data) ==
    [status |-> 200, error |-> <<>>, data |-> data]

PreflightResponse == [status |-> 200, error |-> <<>>, data |-> NoText]

NoResponse == [status |-> 0, error |-> <<>>, data |-> NoText]

\* the comparison with the secret left out
PasswordRejected_m(accessPassword, secret) == Falsy(accessPassword)

\* if (!accessPassword || accessPassword !== DEMO_ACCESS_PASSWORD)
PasswordRejected(accessPassword, secret) ==
    Falsy(accessPassword) \/ accessPassword # secret

\* the check of the payload field left out
FieldMissing_m(field) == FALSE

\* if (!infrastructureState) / (!qualityMetrics) / (!errorLog)
FieldMissing(field) == Falsy(field)

\* the check of the provider credential left out
KeyMissing_m(key) == FALSE

\* if (!ANTHROPIC_API_KEY)
KeyMissing(key) == Falsy(key)

\* the message of the error a failed provider call raises inside the handler
FailureMessage(fn, out) ==
    IF out.kind = "throw" THEN MsgFetchFailed
    ELSE IF ~ResponseOk(out) THEN MsgClaudeStatus(out.status)
    ELSE MsgNotJson

\* multi-agent catch block: the status is chosen by message.includes
MultiAgentCatch(msg) ==
    IF Includes(msg, <<"4", "2", "9">>) THEN ErrorResponse(429, MsgRateLimit)
    ELSE IF Includes(msg, <<"4", "0", "1">>) THEN ErrorResponse(401, MsgInvalidKey)
    ELSE ErrorResponse(500, msg)

\* release-readiness / workflow-diagnostic catch block
SingleCatch(msg) == ErrorResponse(500, msg)

CatchResponse(fn, msg) ==
    IF fn = "multi-agent" THEN MultiAgentCatch(msg) ELSE SingleCatch(msg)

\* release-readiness / workflow-diagnostic: if (!response.ok) { ... }
SingleNotOk(out) ==
    IF out.status = 429 THEN ErrorResponse(429, MsgRateLimit)
    ELSE IF out.status = 401 THEN ErrorResponse(401, MsgInvalidKey)
    ELSE ErrorResponse(500, MsgClaudeApiError)

\* the response a failed provider call ends the request with
ProviderFailureResponse(fn, out) ==
    IF fn # "multi-agent" /\ out.kind = "http" /\ ~ResponseOk(out)
    THEN SingleNotOk(out)
    ELSE CatchResponse(fn, FailureMessage(fn, out))

\* a provider call succeeded: 2xx and a JSON body
CallSucceeded(out) == ResponseOk(out) /\ out.json

\* data.content?.[0]?.text || <default>
ExtractText(fn, out) == OrElse(out.text, EmptyTextDefault(fn))


\* the success object of a function: one text per stage, plus model_used
SuccessData(fn, results) ==
    [f \in {Stages(fn)[i] : i \in 1..Len(Stages(fn))} \cup {"model_used"} |->
        IF f = "model_used"
        THEN (IF fn = "multi-agent" THEN "claude-sonnet-4-20250514" ELSE "claude-3-haiku-20240307")
        ELSE LET i == CHOOSE k \in 1..Len(Stages(fn)) : Stages(fn)[k] = f
             IN ExtractText(fn, results[i])]

(***************************************************************************)
(* State                                                                   *)
(***************************************************************************)
VARIABLES
    env,              \* Deno.env of the relay functions
    requests,         \* relay invocations: the request and the handler's position
    build,            \* which DemoRunner is mounted
    cfg,              \* import.meta.env and the values the user typed in
    demo,             \* props.demo.id
    isRunning,        \* useState: a run is in progress
    output,           \* useState: the output lines
    toast,            \* the last toast shown
    previousRuns,     \* useState: the displayed history list
    isLoadingHistory, \* useState
    run,              \* the position of the run in progress
    loads,            \* loadPreviousRuns calls awaiting the remote select
    remote,           \* rows of public.demo_runs
    localStore,       \* localStorage['demoRuns:<demo.id>']
    runLog,           \* history: per run, how the model call ended and what was shown
    selectedRun,      \* useState: the saved run loaded into the output panel
    keyDialog         \* ApiKeySettings: localStorage['anthropic_api_key'], open, the
                      \* input, and the handler that ran last

relayVars == <<env, requests>>
runnerVars == <<build, cfg, demo, isRunning, output, toast, previousRuns,
                isLoadingHistory, run, loads, remote, localStore, runLog,
                selectedRun, keyDialog>>
vars == <<env, requests, build, cfg, demo, isRunning, output, toast, previousRuns,
          isLoadingHistory, run, loads, remote, localStore, runLog,
          selectedRun, keyDialog>>

(***************************************************************************)
(* Relay handler: Deno.serve(async (req) => { ... })                       *)
(***************************************************************************)
Secrets == {Undefined, "", "s3cret"}
Passwords == {Undefined, "", "wrong", "s3cret"}
ApiKeys == {Undefined, "sk-ant-relay"}
FieldValues == {Undefined, "", "data"}

NewRequest(fn, origin, method, parseError, accessPassword, field) ==
    [fn |-> fn, origin |-> origin, method |-> method, parseError |-> parseError,
     accessPassword |-> accessPassword, field |-> field,
     pc |-> IF method = "OPTIONS" THEN "done" ELSE "parse",
     calls |-> <<>>, results |-> <<>>,
     resp |-> IF method = "OPTIONS" THEN PreflightResponse ELSE NoResponse]

External == {i \in 1..Len(requests) : requests[i].origin = "external"}

\* a request arrives from any client; an OPTIONS preflight is answered at once
Receive(fn, method, parseError, accessPassword, field) ==
    /\ Cardinality(External) < MaxRequests
    /\ requests' = Append(requests,
                     NewRequest(fn, "external", method, parseError, accessPassword, field))
    /\ UNCHANGED <<env, runnerVars>>

Respond(r, response) ==
    requests' = [requests EXCEPT ![r].pc = "done", ![r].resp = response]

\* const { <field>, accessPassword } = await req.json();
ParseBody(r) ==
    /\ requests[r].pc = "parse"
    /\ IF requests[r].parseError # <<>>
       THEN Respond(r, CatchResponse(requests[r].fn, requests[r].parseError))
       ELSE requests' = [requests EXCEPT ![r].pc = "gate"]
    /\ UNCHANGED <<env, runnerVars>>

\* the 401 response built but not returned
VerifyAccessPassword_m(r) ==
    /\ requests[r].pc = "gate"
    /\ requests' = [requests EXCEPT ![r].pc = "validate"]
    /\ UNCHANGED <<env, runnerVars>>

\* Verify demo access password
VerifyAccessPassword(r) ==
    /\ requests[r].pc = "gate"
    /\ IF PasswordRejected(requests[r].accessPassword, env.DEMO_ACCESS_PASSWORD)
       THEN Respond(r, ErrorResponse(401, MsgInvalidPassword))
       ELSE requests' = [requests EXCEPT ![r].pc = "validate"]
    /\ UNCHANGED <<env, runnerVars>>

ValidatePayload(r) ==
    /\ requests[r].pc = "validate"
    /\ IF FieldMissing(requests[r].field)
       THEN Respond(r, ErrorResponse(400, MsgRequired(requests[r].fn)))
       ELSE requests' = [requests EXCEPT ![r].pc = "key"]
    /\ UNCHANGED <<env, runnerVars>>

CheckApiKey(r) ==
    /\ requests[r].pc = "key"
    /\ IF KeyMissing(env.ANTHROPIC_API_KEY)
       THEN Respond(r, ErrorResponse(500, MsgKeyNotConfigured))
       ELSE requests' = [requests EXCEPT ![r].pc = "call"]
    /\ UNCHANGED <<env, runnerVars>>

\* the stage's call sent again after the previous call failed
callClaude_m(r) ==
    /\ \/ requests[r].pc = "call"
       \/ /\ requests[r].pc = "done"
          /\ requests[r].results # <<>>
          /\ ~CallSucceeded(requests[r].results[Len(requests[r].results)])
          /\ Len(requests[r].calls) < Len(Stages(requests[r].fn))
    /\ requests' = [requests EXCEPT
                      ![r].pc = "await",
                      ![r].calls = Append(@, Stages(requests[r].fn)[Len(@) + 1])]
    /\ UNCHANGED <<env, runnerVars>>

\* the next stage's fetch('https://api.anthropic.com/v1/messages') is sent
callClaude(r) ==
    /\ requests[r].pc = "call"
    /\ requests' = [requests EXCEPT
                      ![r].pc = "await",
                      ![r].calls = Append(@, Stages(requests[r].fn)[Len(@) + 1])]
    /\ UNCHANGED <<env, runnerVars>>

\* callClaude without the `if (!response.ok) throw`
AfterCall_m(req, out) ==
    LET results == Append(req.results, out) IN
    IF out.kind = "throw" \/ ~out.json
    THEN [req EXCEPT !.results = results, !.pc = "done",
                     !.resp = ProviderFailureResponse(req.fn, out)]
    ELSE IF Len(results) < Len(Stages(req.fn))
    THEN [req EXCEPT !.results = results, !.pc = "call"]
    ELSE [req EXCEPT !.results = results, !.pc = "done",
                     !.resp = SuccessResponse(SuccessData(req.fn, results))]

\* what the handler does once the awaited provider call has settled
AfterCall(req, out) ==
    LET results == Append(req.results, out) IN
    IF ~CallSucceeded(out)
    THEN [req EXCEPT !.results = results, !.pc = "done",
                     !.resp = ProviderFailureResponse(req.fn, out)]
    ELSE IF Len(results) < Len(Stages(req.fn))
    THEN [req EXCEPT !.results = results, !.pc = "call"]
    ELSE [req EXCEPT !.results = results, !.pc = "done",
                     !.resp = SuccessResponse(SuccessData(req.fn, results))]

ProviderResponds(r, out) ==
    /\ requests[r].pc = "await"
    /\ requests' = [requests EXCEPT ![r] = AfterCall(requests[r], out)]
    /\ UNCHANGED <<env, runnerVars>>

Handler(r) ==
    \/ ParseBody(r)
    \/ VerifyAccessPassword(r)
    \/ ValidatePayload(r)
    \/ CheckApiKey(r)
    \/ callClaude(r)
    \/ \E out \in ProviderOutcomes : ProviderResponds(r, out)


(***************************************************************************)
(* Run store                                                               *)
(***************************************************************************)
\* a fifth demo offered by the views
Demos_m ==
    {"workflow-diagnostic", "release-readiness", "multi-agent", "developer-portal",
     "cost-optimizer"}

\* the ids of the demos the views pass to DemoRunner
Demos == {"workflow-diagnostic", "release-readiness", "multi-agent", "developer-portal"}

\* saveLocalRun: .slice(0, 20)
LocalCap == 20
\* loadPreviousRuns: .limit(20)
QueryLimit == 20

\* sizes of the history left behind by earlier sessions
PreLocalSizes == {0, LocalCap}
PreRemoteSizes == {0, QueryLimit + 1}
\* readings of the wall clock (new Date() in the browser, now() in the table)
MaxTime == 2
Times == 1..MaxTime
\* runs started per session, in each specification
MaxRuns == 1
MaxStoreRuns == 2
MaxSkewRuns == 2
MaxSessionRuns == 2
MaxPanelRuns == 1

CLAUDE_MODEL == "claude-3-haiku-20240307"
SONNET_MODEL == "claude-sonnet-4-20250514"

\* the mode argument ignored: every record written as a local run
DemoRun_m(origin, n, d, mode, outputData, t) ==
    [id |-> <<origin, n>>, run |-> n, demo_id |-> d, execution_mode |-> "local",
     output_data |-> outputData, created_at |-> t]

\* a row of demo_runs / an entry of the on-device list
DemoRun(origin, n, d, mode, outputData, t) ==
    [id |-> <<origin, n>>, run |-> n, demo_id |-> d, execution_mode |-> mode,
     output_data |-> outputData, created_at |-> t]

EarlierOutput == [result |-> "earlier run", model_used |-> CLAUDE_MODEL]

\* the on-device list an earlier session left: newest first
EarlierLocal(d, n) ==
    [i \in 1..n |-> DemoRun("local", 0 - i, d, "local", EarlierOutput, 0 - i)]

\* the rows earlier sessions inserted into demo_runs
EarlierRemote(d, n) ==
    { DemoRun("remote", 0 - 100 - i, d, "cloud", EarlierOutput, 0 - i) : i \in 1..n }

\* the last n entries kept instead of the first n
Slice_m(seq, n) == SubSeq(seq, IF Len(seq) < n THEN 1 ELSE Len(seq) - n + 1, Len(seq))

\* seq.slice(0, n)
Slice(seq, n) == SubSeq(seq, 1, IF Len(seq) < n THEN Len(seq) ELSE n)

\* order('created_at', { ascending: false }); rows with equal created_at are
\* returned in a fixed order
Newer(a, b) ==
    \/ a.created_at > b.created_at
    \/ a.created_at = b.created_at /\ a.run >= b.run

RECURSIVE OrderDesc(_)
OrderDesc(rows) ==
    IF rows = {} THEN <<>>
    ELSE LET x == CHOOSE row \in rows : TRUE
             rest == OrderDesc(rows \ {x})
             k == Cardinality({i \in 1..Len(rest) : Newer(rest[i], x)})
         IN SubSeq(rest, 1, k) \o <<x>> \o SubSeq(rest, k + 1, Len(rest))

\* supabase.from('demo_runs').select('*').eq('demo_id', d)
\*   .order('created_at', { ascending: false }).limit(20)
RemoteSelect(rows, d) ==
    Slice(OrderDesc({row \in rows : row.demo_id = d}), QueryLimit)

\* the stored list never read: always the empty list
getLocalRuns_m(store, d) == <<>>

\* getLocalRuns under the key `demoRuns:${d}`
getLocalRuns(store, d) == store[d]

\* the list prepended to without the slice
NextLocalRuns_m(rec, existing) == <<rec>> \o existing

\* saveLocalRun: [run, ...existing].slice(0, 20)
NextLocalRuns(rec, existing) == Slice(<<rec>> \o existing, LocalCap)

(***************************************************************************)
(* DemoRunner                                                              *)
(***************************************************************************)
\* "fallback": the runner with the on-device history fallback (direct or
\* dev-proxy transport); "cloud": the runner with the execution-mode switch
\* that saves to the remote table only
Builds == {"fallback", "cloud"}

DirectEndpoint == "https://api.anthropic.com/v1/messages"

getClaudeApiEndpoint(proxyUrl, dev) ==
    IF ~Falsy(proxyUrl) THEN proxyUrl
    ELSE IF dev THEN "/anthropic/v1/messages"
    ELSE DirectEndpoint

\* getDemoEndpoint(demoId)
getDemoEndpoint(d) ==
    IF d \in Demos THEN d ELSE "workflow-diagnostic"

\* the message of the FunctionsHttpError that supabase.functions.invoke
\* returns for every non-2xx answer of the function
MsgInvokeHttpError == <<"Edge Function returned a non-", "2", "xx status code">>
\* the message of the FunctionsFetchError when the function cannot be reached
MsgInvokeFetchError == <<"Failed to send a request to the Edge Function">>
\* the message of the DOMException localStorage.setItem throws
MsgQuota == <<"Failed to execute 'setItem' on 'Storage'">>

ToastSaveFailed == <<"Failed to save run to history. Using local history.">>
ToastHistoryUnavailable == <<"History unavailable. Using local history.">>
ToastSaved == <<"Demo completed and saved!">>
ToastLoaded == <<"Loaded previous run">>
ToastRateLimit == <<"Rate limit exceeded">>
ToastInvalidKey == <<"Invalid API key">>
ToastClaudeError == <<"Claude API error">>
ToastUnexpected == <<"An unexpected error occurred">>
ToastUnreachable == <<"Browser could not reach Claude. Run through the dev proxy or provide VITE_ANTHROPIC_PROXY_URL.">>

LineRateLimit == <<"<error>Error: Rate limit exceeded</error>">>
LineInvalidKey == <<"<error>Error: Invalid API key</error>">>
LineNetwork == <<"<error>Network error: browser cannot call Claude directly.</error>">>
LineComplete == <<"<success>Analysis complete!</success>">>

\* the generic branch showing the status without the body
FallbackNotOk_m(out) ==
    IF out.status = 429
    THEN [toast |-> ToastRateLimit, lines |-> <<LineRateLimit>>]
    ELSE IF out.status = 401
    THEN [toast |-> ToastInvalidKey,
          lines |-> << <<"<error>Error: Invalid API key (">> \o Digits(out.status) \o <<")</error>">>,
                       <<"Anthropic says: ", out.raw>> >>]
    ELSE [toast |-> ToastClaudeError,
          lines |-> << <<"<error>Error (">> \o Digits(out.status) \o <<")</error>">> >>]

\* the lines and the toast a failed model call produces in the fallback
\* runner: if (!response.ok) { ... }
FallbackNotOk(out) ==
    IF out.status = 429
    THEN [toast |-> ToastRateLimit, lines |-> <<LineRateLimit>>]
    ELSE IF out.status = 401
    THEN [toast |-> ToastInvalidKey,
          lines |-> << <<"<error>Error: Invalid API key (">> \o Digits(out.status) \o <<")</error>">>,
                       <<"Anthropic says: ", out.raw>> >>]
    ELSE [toast |-> ToastClaudeError,
          lines |-> << <<"<error>Error (">> \o Digits(out.status) \o <<"): ", out.raw, "</error>">> >>]

\* the catch block of the fallback runner's runDemo
FallbackCatch(msg) ==
    IF Includes(msg, <<"Failed to fetch">>)
    THEN [toast |-> ToastUnreachable, lines |-> <<LineNetwork>>]
    ELSE [toast |-> ToastUnexpected,
          lines |-> << <<"<error>Unexpected error: ">> \o msg \o <<"</error>">> >>]

\* runLocalDemo of the cloud runner: if (!response.ok) { ... }
LocalNotOk(out) ==
    IF out.status = 429
    THEN [toast |-> ToastRateLimit, lines |-> <<LineRateLimit>>]
    ELSE IF out.status = 401
    THEN [toast |-> ToastInvalidKey, lines |-> <<LineInvalidKey>>]
    ELSE [toast |-> ToastClaudeError,
          lines |-> << <<"<error>Error: ", out.raw, "</error>">> >>]

\* the catch block of runLocalDemo
LocalCatch(msg) ==
    [toast |-> ToastUnexpected,
     lines |-> << <<"<error>Unexpected error: ">> \o msg \o <<"</error>">> >>]

\* runCloudDemo: if (error) { ... }
CloudError(msg) ==
    IF Includes(msg, <<"4", "2", "9">>)
    THEN [toast |-> <<"Rate limit exceeded. Please try again later.">>,
          lines |-> <<LineRateLimit>>]
    ELSE IF Includes(msg, <<"4", "0", "2">>)
    THEN [toast |-> <<"AI credits exhausted.">>,
          lines |-> << <<"<error>Error: AI credits exhausted</error>">> >>]
    ELSE [toast |-> <<"Failed to run demo: ">> \o msg,
          lines |-> << <<"<error>Error: ">> \o msg \o <<"</error>">> >>]

\* the message of the exception a model call raises in the browser
BrowserFailureMessage(out) ==
    IF out.kind = "throw" THEN MsgFetchFailed ELSE MsgNotJson

\* only 401 and 429 treated as failures
ModelCallNotOk_m(out) == out.status \in {401, 429}

\* if (!response.ok): the model call failed with an HTTP status
ModelCallNotOk(out) == ~ResponseOk(out)

\* await fetch(...) rejects
FetchRejects(out) == out.kind = "throw"

\* await response.json() rejects
JsonRejects(out) == ~out.json

NoOutcome ==
    [kind |-> "none", status |-> 0, json |-> FALSE, raw |-> "", text |-> Undefined]

Idle == [pc |-> "idle", no |-> 0, req |-> 0, demo |-> "", mode |-> "", data |-> NoText]

\* selectedRun === null
NoRun ==
    [id |-> <<"none", 0>>, run |-> 0, demo_id |-> "", execution_mode |-> "",
     output_data |-> NoText, created_at |-> 0]

\* ApiKeySettings before anything was saved: no stored key, the dialog closed
NoKeyDialog ==
    [present |-> FALSE, stored |-> <<>>, open |-> FALSE, apiKey |-> <<>>, last |-> "none"]


\* data.f: undefined when the object has no such property
Field(data, f) == IF f \in DOMAIN data THEN data[f] ELSE Undefined

\* formatDemoOutput(demoId, data)
formatDemoOutput(d, data) ==
    CASE d = "workflow-diagnostic" -> <<"Diagnosis Summary:", Field(data, "diagnosis")>>
      [] d = "release-readiness" -> <<"Release Evaluation:", Field(data, "evaluation")>>
      [] d = "multi-agent" ->
            <<"Multi-Agent Coordination Results:", Field(data, "cost_analysis"),
              Field(data, "reliability_assessment"), Field(data, "final_recommendation")>>
      [] OTHER -> <<"Developer Portal Response:">>

\* the button left enabled while a run is in progress
ButtonEnabled_m ==
    IF build = "fallback"
    THEN ~Falsy(cfg.apiKey)
    ELSE ~(\/ cfg.executionMode = "local" /\ Falsy(cfg.localApiKey)
           \/ cfg.executionMode = "cloud" /\ Falsy(cfg.demoPassword))

\* disabled={...} of the Run Demo button
ButtonEnabled ==
    IF build = "fallback"
    THEN ~(isRunning \/ Falsy(cfg.apiKey))
    ELSE ~(\/ isRunning
           \/ cfg.executionMode = "local" /\ Falsy(cfg.localApiKey)
           \/ cfg.executionMode = "cloud" /\ Falsy(cfg.demoPassword))

\* the check runDemo / runLocalDemo / runCloudDemo makes before anything
\* else: if (!apiKey) / (!localApiKey) / (!demoPassword) { toast; return }
CredentialMissing ==
    IF build = "fallback" THEN Falsy(cfg.apiKey)
    ELSE IF cfg.executionMode = "local" THEN Falsy(cfg.localApiKey)
    ELSE Falsy(cfg.demoPassword)

\* the transport a run of the mounted runner uses
Transport ==
    IF build = "fallback"
    THEN (IF getClaudeApiEndpoint(cfg.proxyUrl, cfg.dev) = DirectEndpoint
          THEN "direct" ELSE "dev-proxy")
    ELSE IF cfg.executionMode = "local" THEN "direct" ELSE "relay"

\* the runs whose remote insert the runner saw fail
FailedInserts == {k \in 1..Len(runLog) : runLog[k].insert \in {"error", "throw"}}

NewLoad(d) == [demo |-> d, after |-> FailedInserts]

StartLines ==
    IF build = "fallback"
    THEN << <<"Running locally with direct Claude API...">>, <<"Connecting to Claude...">>,
            <<"Analyzing with Claude 3 Haiku...">>,
            <<"Endpoint: ", getClaudeApiEndpoint(cfg.proxyUrl, cfg.dev)>> >>
    ELSE IF cfg.executionMode = "local"
    THEN << <<"Running locally with direct Claude API...">>, <<"Connecting to Claude...">>,
            <<"Analyzing with Claude Sonnet 4...">> >>
    ELSE << <<"Initializing...">>, <<"Verifying access...">>, <<"Calling backend...">>,
            <<"Analyzing with Claude AI...">> >>

\* fetches: the requests the browser itself sent to the model endpoint
NewLogEntry(req) ==
    [transport |-> Transport, req |-> req, out |-> NoOutcome, lines |-> <<>>,
     insert |-> "none", fetches |-> IF req = 0 THEN 1 ELSE 0]

\* runDemo / runLocalDemo / runCloudDemo up to the first await
RunDemo ==
    /\ ButtonEnabled
    /\ ~CredentialMissing
    /\ Len(runLog) < cfg.runBudget
    /\ selectedRun' = NoRun
    /\ isRunning' = TRUE
    /\ output' = StartLines
    /\ IF Transport = "relay"
       THEN /\ requests' = Append(requests,
                             NewRequest(getDemoEndpoint(demo), "runner", "POST", <<>>,
                                        cfg.demoPassword, "data"))
            /\ run' = [pc |-> "invoke", no |-> Len(runLog) + 1, req |-> Len(requests) + 1,
                       demo |-> demo, mode |-> "cloud", data |-> NoText]
            /\ runLog' = Append(runLog, NewLogEntry(Len(requests) + 1))
       ELSE /\ requests' = requests
            /\ run' = [pc |-> "fetch", no |-> Len(runLog) + 1, req |-> 0,
                       demo |-> demo, mode |-> "local", data |-> NoText]
            /\ runLog' = Append(runLog, NewLogEntry(0))
    /\ UNCHANGED <<env, keyDialog, build, cfg, demo, toast, previousRuns, isLoadingHistory,
                   loads, remote, localStore>>

\* isRunning reset on the success path only
FinishRun_m(lines, toasts, out, insert) ==
    /\ output' = output \o lines
    /\ toast' = toasts
    /\ isRunning' = ~ResponseOk(out)
    /\ run' = Idle
    /\ runLog' = [runLog EXCEPT ![run.no].out = out, ![run.no].lines = lines,
                                ![run.no].insert = insert]

\* the run ends: the lines are appended, finally { setIsRunning(false) }
FinishRun(lines, toasts, out, insert) ==
    /\ output' = output \o lines
    /\ toast' = toasts
    /\ isRunning' = FALSE
    /\ run' = Idle
    /\ runLog' = [runLog EXCEPT ![run.no].out = out, ![run.no].lines = lines,
                                ![run.no].insert = insert]

\* the lines appended after `await saveRun(...)` returned
CompleteLines(data) ==
    IF build = "fallback"
    THEN <<LineComplete, <<"Model: Claude 3 Haiku">>, <<"">>, <<data["result"]>> >>
    ELSE IF run.mode = "local"
    THEN <<LineComplete, <<"Model: Claude Sonnet 4">>, <<"">>, <<data["result"]>> >>
    ELSE <<LineComplete, <<"Model: Claude (", OrElse(data["model_used"], SONNET_MODEL), ")">>,
           <<"">>, formatDemoOutput(run.demo, data)>>

\* the catch block of the run in progress
RunCatch(msg) ==
    IF build = "fallback" THEN FallbackCatch(msg)
    ELSE IF run.mode = "local" THEN LocalCatch(msg)
    ELSE [toast |-> ToastUnexpected, lines |-> << <<"<error>Unexpected error occurred</error>">> >>]

\* saveLocalRun(rec): setItem, then setPreviousRuns
SaveLocalRun(rec) ==
    /\ localStore' = [localStore EXCEPT ![rec.demo_id] = NextLocalRuns(rec, getLocalRuns(localStore, rec.demo_id))]
    /\ previousRuns' = NextLocalRuns(rec, getLocalRuns(localStore, rec.demo_id))

\* the browser's fetch of the model endpoint settles
FetchReturns(out, t, writable) ==
    /\ run.pc = "fetch"
    /\ LET data == [result |-> OrElse(out.text, "No response generated"),
                    model_used |-> IF build = "fallback" THEN CLAUDE_MODEL ELSE SONNET_MODEL]
           rec == DemoRun("local", run.no, run.demo, "local", data, t)
       IN
       IF FetchRejects(out)
       THEN LET r == RunCatch(BrowserFailureMessage(out))
            IN /\ FinishRun(r.lines, <<r.toast>>, out, "none")
               /\ UNCHANGED <<previousRuns, localStore>>
       ELSE IF ModelCallNotOk(out)
       THEN LET r == IF build = "fallback" THEN FallbackNotOk(out) ELSE LocalNotOk(out)
            IN /\ FinishRun(r.lines, <<r.toast>>, out, "none")
               /\ UNCHANGED <<previousRuns, localStore>>
       ELSE IF JsonRejects(out)
       THEN LET r == RunCatch(BrowserFailureMessage(out))
            IN /\ FinishRun(r.lines, <<r.toast>>, out, "none")
               /\ UNCHANGED <<previousRuns, localStore>>
       ELSE IF build = "fallback" /\ ~cfg.supabaseConfigured
       THEN IF writable
            THEN /\ SaveLocalRun(rec)
                 /\ FinishRun(CompleteLines(data), <<ToastSaved>>, out, "none")
            ELSE /\ FinishRun(RunCatch(MsgQuota).lines,
                              <<ToastSaveFailed, RunCatch(MsgQuota).toast>>, out, "none")
                 /\ UNCHANGED <<previousRuns, localStore>>
       ELSE /\ run' = [run EXCEPT !.pc = "insert", !.data = data]
            /\ runLog' = [runLog EXCEPT ![run.no].out = out]
            /\ UNCHANGED <<output, toast, isRunning, previousRuns, localStore>>
    /\ UNCHANGED <<env, selectedRun, keyDialog, requests, build, cfg, demo, isLoadingHistory, loads, remote>>


\* the outcome of the last provider call a relay request made
LastOutcome(req) ==
    IF Len(req.results) = 0 THEN NoOutcome ELSE req.results[Len(req.results)]

\* supabase.functions.invoke(endpoint, ...) resolves with { data, error }
InvokeReturns ==
    /\ run.pc = "invoke"
    /\ requests[run.req].pc = "done"
    /\ LET req == requests[run.req] IN
       IF req.resp.status \notin 200..299
       THEN LET r == CloudError(MsgInvokeHttpError)
            IN FinishRun(r.lines, <<r.toast>>, LastOutcome(req), "none")
       ELSE /\ run' = [run EXCEPT !.pc = "insert", !.data = req.resp.data]
            /\ runLog' = [runLog EXCEPT ![run.no].out = LastOutcome(req)]
            /\ UNCHANGED <<output, toast, isRunning>>
    /\ UNCHANGED <<env, selectedRun, keyDialog, requests, build, cfg, demo, previousRuns, isLoadingHistory,
                   loads, remote, localStore>>

\* the invocation never reaches the function: invoke resolves with a
\* FunctionsFetchError
InvokeUnreachable ==
    /\ run.pc = "invoke"
    /\ requests[run.req].pc = "parse"
    /\ requests' = [requests EXCEPT ![run.req].pc = "dropped"]
    /\ LET r == CloudError(MsgInvokeFetchError)
       IN FinishRun(r.lines, <<r.toast>>, NoOutcome, "none")
    /\ UNCHANGED <<env, selectedRun, keyDialog, build, cfg, demo, previousRuns, isLoadingHistory,
                   loads, remote, localStore>>

InsertResults == {"ok", "error", "throw", "throw-committed"}

\* what the runner sees of an insert result
Seen(res) == IF res = "throw-committed" THEN "throw" ELSE res

\* supabase.from('demo_runs').insert(...) settles; the rest of saveRun and of
\* the run follows
InsertReturns(res, t, writable) ==
    /\ run.pc = "insert"
    /\ LET row == DemoRun("remote", run.no, run.demo, run.mode, run.data, t)
           rec == DemoRun("local", run.no, run.demo, run.mode, run.data, t)
           out == runLog[run.no].out
       IN
       /\ remote' = IF res \in {"ok", "throw-committed"} THEN remote \cup {row} ELSE remote
       /\ IF res = "ok"
          THEN \* Reload history to show new run
               /\ isLoadingHistory' = TRUE
               /\ loads' = Append(loads, NewLoad(run.demo))
               /\ FinishRun(CompleteLines(run.data), <<ToastSaved>>, out, "ok")
               /\ UNCHANGED <<previousRuns, localStore>>
          ELSE IF build = "cloud"
          THEN \* console.error only
               /\ FinishRun(CompleteLines(run.data), <<ToastSaved>>, out, Seen(res))
               /\ UNCHANGED <<previousRuns, localStore, isLoadingHistory, loads>>
          ELSE IF writable
          THEN /\ SaveLocalRun(rec)
               /\ FinishRun(CompleteLines(run.data), <<ToastSaveFailed, ToastSaved>>,
                            out, Seen(res))
               /\ UNCHANGED <<isLoadingHistory, loads>>
          ELSE \* setItem throws in saveLocalRun and again in saveRun's catch
               /\ FinishRun(RunCatch(MsgQuota).lines,
                            IF res = "error"
                            THEN <<ToastSaveFailed, ToastSaveFailed, RunCatch(MsgQuota).toast>>
                            ELSE <<ToastSaveFailed, RunCatch(MsgQuota).toast>>,
                            out, Seen(res))
               /\ UNCHANGED <<previousRuns, localStore, isLoadingHistory, loads>>
    /\ UNCHANGED <<env, selectedRun, keyDialog, requests, build, cfg, demo>>

\* the remote select issued whether or not the remote store is configured
loadPreviousRuns_m(d) ==
    /\ isLoadingHistory' = TRUE
    /\ loads' = Append(loads, NewLoad(d))
    /\ UNCHANGED previousRuns

\* loadPreviousRuns() up to the await of the remote select
loadPreviousRuns(d) ==
    IF build = "fallback" /\ ~cfg.supabaseConfigured
    THEN /\ previousRuns' = getLocalRuns(localStore, d)
         /\ isLoadingHistory' = FALSE
         /\ UNCHANGED loads
    ELSE /\ isLoadingHistory' = TRUE
         /\ loads' = Append(loads, NewLoad(d))
         /\ UNCHANGED previousRuns

\* the Refresh button of the history tab
Refresh ==
    /\ ~isLoadingHistory
    /\ loadPreviousRuns(demo)
    /\ UNCHANGED <<env, selectedRun, keyDialog, requests, build, cfg, demo, isRunning, output, toast, run,
                   remote, localStore, runLog>>

RemoveAt(seq, i) == SubSeq(seq, 1, i - 1) \o SubSeq(seq, i + 1, Len(seq))

LoadResults == {"ok", "error", "throw"}

\* a failed select only logged: the list shown is kept and no notice raised
LoadReturns_m(i, res) ==
    /\ i \in 1..Len(loads)
    /\ loads' = RemoveAt(loads, i)
    /\ isLoadingHistory' = FALSE
    /\ LET d == loads[i].demo IN
       IF res = "ok"
       THEN /\ previousRuns' = RemoteSelect(remote, d)
            /\ toast' = toast
       ELSE /\ previousRuns' = previousRuns
            /\ toast' = toast
    /\ UNCHANGED <<env, selectedRun, keyDialog, requests, build, cfg, demo, isRunning, output, run,
                   remote, localStore, runLog>>

\* the remote select of a loadPreviousRuns call settles
LoadReturns(i, res) ==
    /\ i \in 1..Len(loads)
    /\ loads' = RemoveAt(loads, i)
    /\ isLoadingHistory' = FALSE
    /\ LET d == loads[i].demo IN
       IF res = "ok"
       THEN /\ previousRuns' = RemoteSelect(remote, d)
            /\ toast' = toast
       ELSE IF build = "fallback"
       THEN /\ previousRuns' = getLocalRuns(localStore, d)
            /\ toast' = <<ToastHistoryUnavailable>>
       ELSE /\ previousRuns' = previousRuns
            /\ toast' = toast
    /\ UNCHANGED <<env, selectedRun, keyDialog, requests, build, cfg, demo, isRunning, output, run,
                   remote, localStore, runLog>>

\* the lines loadRun(rec) puts in the output panel
LoadedLines(rec) ==
    << <<"Loaded saved run from ", ToString(rec.created_at)>>,
       <<"Mode: ", IF rec.execution_mode = "cloud" THEN "Cloud Backend" ELSE "Local">>,
       <<"Model: Claude (",
         OrElse(Field(rec.output_data, "model_used"), CLAUDE_MODEL), ")">>,
       <<"">>,
       formatDemoOutput(rec.demo_id, rec.output_data) >>

\* a click on the j-th entry of the history list
loadRun(j) ==
    /\ ~isLoadingHistory
    /\ j \in 1..Len(previousRuns)
    /\ selectedRun' = previousRuns[j]
    /\ output' = LoadedLines(previousRuns[j])
    /\ toast' = <<ToastLoaded>>
    /\ UNCHANGED <<env, keyDialog, requests, build, cfg, demo, isRunning, run, previousRuns,
                   isLoadingHistory, loads, remote, localStore, runLog>>

\* history loads outstanding at once
MaxLoads == 2

\* another tab of AdminView is selected: the same DemoRunner is rendered with
\* the other demo and useEffect([demo.id]) calls loadPreviousRuns
SelectDemo(d) ==
    /\ d \in Demos
    /\ d # demo
    /\ Len(loads) < MaxLoads
    /\ demo' = d
    /\ loadPreviousRuns(d)
    /\ UNCHANGED <<env, selectedRun, keyDialog, requests, build, cfg, isRunning, output, toast,
                   run, remote, localStore, runLog>>

(***************************************************************************)
(* ApiKeySettings                                                          *)
(***************************************************************************)
\* the longest text typed into the key field, in pieces
MaxKeyLen == 3

\* the pieces a typed key is made of: white space, the prefix, anything else
KeyPieces == {" ", "sk-ant-", "x"}

RECURSIVE KeysUpTo(_)
KeysUpTo(n) ==
    IF n = 0 THEN {<<>>}
    ELSE KeysUpTo(n - 1)
           \cup {Append(k, p) : k \in {q \in KeysUpTo(n - 1) : Len(q) = n - 1}, p \in KeyPieces}

\* what the user can type into the field
TypedKeys == KeysUpTo(MaxKeyLen)

RECURSIVE TrimStart(_)
TrimStart(k) == IF k # <<>> /\ Head(k) = " " THEN TrimStart(Tail(k)) ELSE k

RECURSIVE TrimEnd(_)
TrimEnd(k) ==
    IF k # <<>> /\ k[Len(k)] = " " THEN TrimEnd(SubSeq(k, 1, Len(k) - 1)) ELSE k

\* apiKey.trim()
Trim(k) == TrimEnd(TrimStart(k))

\* apiKey.startsWith('sk-ant-')
StartsWithPrefix(k) == k # <<>> /\ Head(k) = "sk-ant-"

ToastKeyCleared == <<"API key cleared">>
ToastKeyInvalid == <<"Invalid API key format. Should start with \"sk-ant-\"">>
ToastKeySaved == <<"API key saved successfully">>

\* localStorage.getItem('anthropic_api_key') || ''
SavedKey == IF keyDialog.present THEN keyDialog.stored ELSE <<>>

\* the 'API Settings' button of DeveloperView; useEffect([open]) reloads the field
OpenSettings ==
    /\ ~keyDialog.open
    /\ keyDialog' = [keyDialog EXCEPT !.open = TRUE, !.apiKey = SavedKey, !.last = "open"]
    /\ UNCHANGED <<env, requests, build, cfg, demo, isRunning, output, toast, previousRuns,
                   isLoadingHistory, run, loads, remote, localStore, runLog, selectedRun>>

\* the dialog is dismissed: onOpenChange(false); useEffect([open]) reloads the field
CloseSettings ==
    /\ keyDialog.open
    /\ keyDialog' = [keyDialog EXCEPT !.open = FALSE, !.apiKey = SavedKey, !.last = "close"]
    /\ UNCHANGED <<env, requests, build, cfg, demo, isRunning, output, toast, previousRuns,
                   isLoadingHistory, run, loads, remote, localStore, runLog, selectedRun>>

\* onChange={(e) => setApiKey(e.target.value)}
setApiKey(k) ==
    /\ keyDialog.open
    /\ keyDialog' = [keyDialog EXCEPT !.apiKey = k, !.last = "type"]
    /\ UNCHANGED <<env, requests, build, cfg, demo, isRunning, output, toast, previousRuns,
                   isLoadingHistory, run, loads, remote, localStore, runLog, selectedRun>>

\* the test of the prefix left out: every non-empty key is stored
handleSave_m ==
    /\ keyDialog.open
    /\ IF Trim(keyDialog.apiKey) = <<>>
       THEN /\ keyDialog' = [keyDialog EXCEPT !.present = FALSE, !.stored = <<>>,
                                              !.open = FALSE, !.apiKey = <<>>,
                                              !.last = "save"]
            /\ toast' = <<ToastKeyCleared>>
       ELSE /\ keyDialog' = [keyDialog EXCEPT !.present = TRUE,
                                              !.stored = Trim(keyDialog.apiKey),
                                              !.open = FALSE,
                                              !.apiKey = Trim(keyDialog.apiKey),
                                              !.last = "save"]
            /\ toast' = <<ToastKeySaved>>
    /\ UNCHANGED <<env, requests, build, cfg, demo, isRunning, output, previousRuns,
                   isLoadingHistory, run, loads, remote, localStore, runLog, selectedRun>>

\* the Save button; on success onOpenChange(false) and the field is reloaded
handleSave ==
    /\ keyDialog.open
    /\ IF Trim(keyDialog.apiKey) = <<>>
       THEN /\ keyDialog' = [keyDialog EXCEPT !.present = FALSE, !.stored = <<>>,
                                              !.open = FALSE, !.apiKey = <<>>,
                                              !.last = "save"]
            /\ toast' = <<ToastKeyCleared>>
       ELSE IF ~StartsWithPrefix(keyDialog.apiKey)
       THEN /\ keyDialog' = [keyDialog EXCEPT !.last = "save"]
            /\ toast' = <<ToastKeyInvalid>>
       ELSE /\ keyDialog' = [keyDialog EXCEPT !.present = TRUE,
                                              !.stored = Trim(keyDialog.apiKey),
                                              !.open = FALSE,
                                              !.apiKey = Trim(keyDialog.apiKey),
                                              !.last = "save"]
            /\ toast' = <<ToastKeySaved>>
    /\ UNCHANGED <<env, requests, build, cfg, demo, isRunning, output, previousRuns,
                   isLoadingHistory, run, loads, remote, localStore, runLog, selectedRun>>

\* the Clear button: the dialog stays open
handleClear ==
    /\ keyDialog.open
    /\ keyDialog' = [keyDialog EXCEPT !.present = FALSE, !.stored = <<>>, !.apiKey = <<>>,
                                      !.last = "clear"]
    /\ toast' = <<ToastKeyCleared>>
    /\ UNCHANGED <<env, requests, build, cfg, demo, isRunning, output, previousRuns,
                   isLoadingHistory, run, loads, remote, localStore, runLog, selectedRun>>

(***************************************************************************)
(* Initial states                                                          *)
(***************************************************************************)
Envs == [DEMO_ACCESS_PASSWORD : Secrets, ANTHROPIC_API_KEY : ApiKeys]

NoEnv == [DEMO_ACCESS_PASSWORD |-> Undefined, ANTHROPIC_API_KEY |-> Undefined]

Config(configured, apiKey, proxyUrl, dev, mode, localApiKey, demoPassword, clock, budget) ==
    [supabaseConfigured |-> configured, apiKey |-> apiKey, proxyUrl |-> proxyUrl,
     dev |-> dev, executionMode |-> mode, localApiKey |-> localApiKey,
     demoPassword |-> demoPassword, clock |-> clock, runBudget |-> budget]

\* the component has mounted: useEffect(() => { loadPreviousRuns() }, [demo.id])
Mounted(b, c, d, nLocal, nRemote) ==
    /\ build = b
    /\ cfg = c
    /\ demo = d
    /\ isRunning = FALSE
    /\ output = <<>>
    /\ toast = <<>>
    /\ run = Idle
    /\ runLog = <<>>
    /\ selectedRun = NoRun
    /\ keyDialog = NoKeyDialog
    /\ remote = EarlierRemote(d, nRemote)
                  \cup EarlierRemote(CHOOSE o \in Demos : o # d, 1)
    /\ localStore = [k \in Demos |-> IF k = d THEN EarlierLocal(d, nLocal) ELSE <<>>]
    /\ IF b = "fallback" /\ ~c.supabaseConfigured
       THEN /\ previousRuns = EarlierLocal(d, nLocal)
            /\ isLoadingHistory = FALSE
            /\ loads = <<>>
       ELSE /\ previousRuns = <<>>
            /\ isLoadingHistory = TRUE
            /\ loads = <<[demo |-> d, after |-> {}]>>

Endpoints == { <<Undefined, FALSE>>, <<Undefined, TRUE>>, <<"https://proxy.example/v1/messages", FALSE>> }

\* the relay functions alone, invoked by arbitrary clients
InitRelay ==
    /\ env \in Envs
    /\ requests = <<>>
    /\ Mounted("cloud", Config(TRUE, "", Undefined, FALSE, "cloud", "", "", {1}, 0),
               "workflow-diagnostic", 0, 0)

\* a runner and, for the cloud runner, the relay functions behind it
InitRunner ==
    /\ requests = <<>>
    /\ \/ /\ env = NoEnv
          /\ \E d \in Demos, configured \in BOOLEAN, key \in {"", "sk-ant-browser"},
                e \in Endpoints :
               Mounted("fallback",
                       Config(configured, key, e[1], e[2], "local", "", "", {1}, MaxRuns),
                       d, 0, 0)
       \/ /\ env \in Envs
          /\ \E d \in Functions, pw \in {"", "wrong", "s3cret"} :
               Mounted("cloud",
                       Config(TRUE, "", Undefined, FALSE, "cloud", "", pw, {1}, MaxRuns),
                       d, 0, 0)
       \/ /\ env = NoEnv
          /\ \E d \in Demos, key \in {"", "sk-ant-user"} :
               Mounted("cloud",
                       Config(TRUE, "", Undefined, FALSE, "local", key, "", {1}, MaxRuns),
                       d, 0, 0)

\* a session of several runs, one after the other, in each runner and
\* transport, with every credential configured
InitSession ==
    /\ requests = <<>>
    /\ env = [DEMO_ACCESS_PASSWORD |-> "s3cret", ANTHROPIC_API_KEY |-> "sk-ant-relay"]
    /\ \/ \E e \in Endpoints :
            Mounted("fallback",
                    Config(TRUE, "sk-ant-browser", e[1], e[2], "local", "", "", {1},
                           MaxSessionRuns),
                    "workflow-diagnostic", 0, 0)
       \/ \E d \in {"multi-agent", "release-readiness"} :
            Mounted("cloud",
                    Config(TRUE, "", Undefined, FALSE, "cloud", "", "s3cret", {1},
                           MaxSessionRuns),
                    d, 0, 0)
       \/ Mounted("cloud",
                  Config(TRUE, "", Undefined, FALSE, "local", "sk-ant-user", "", {1},
                         MaxSessionRuns),
                  "workflow-diagnostic", 0, 0)

\* the fallback runner over the history earlier sessions left behind
StoreMounted(clock, budget) ==
    /\ env = NoEnv
    /\ requests = <<>>
    /\ \E d \in Demos, configured \in BOOLEAN, nLocal \in PreLocalSizes,
          nRemote \in PreRemoteSizes :
         /\ (~configured => nRemote = 0)
         /\ Mounted("fallback",
                    Config(configured, "sk-ant-browser", Undefined, FALSE, "local", "", "",
                           clock, budget),
                    d, nLocal, nRemote)

\* ... with a wall clock that never steps back
InitStore == StoreMounted({1}, MaxStoreRuns)

\* ... with a wall clock that may step back between two readings
InitSkew == StoreMounted(Times, MaxSkewRuns)

\* the fallback runner of the admin view, over a short history
InitPanel ==
    /\ env = NoEnv
    /\ requests = <<>>
    /\ \E configured \in BOOLEAN, n \in {0, 1} :
         Mounted("fallback",
                 Config(configured, "sk-ant-browser", Undefined, FALSE, "local", "", "",
                        {1}, MaxPanelRuns),
                 "workflow-diagnostic", n, IF configured THEN n ELSE 0)

\* the developer view with its settings dialog closed and no key stored
InitKeyDialog ==
    /\ env = NoEnv
    /\ requests = <<>>
    /\ Mounted("cloud", Config(TRUE, "", Undefined, FALSE, "local", "", "", {1}, 0),
               "developer-portal", 0, 0)

(***************************************************************************)
(* Specifications                                                          *)
(***************************************************************************)
NextRelay ==
    \/ \E fn \in Functions :
         \/ Receive(fn, "OPTIONS", <<>>, Undefined, Undefined)
         \/ \E e \in BodyParseErrors : Receive(fn, "POST", e, Undefined, Undefined)
         \/ \E pw \in Passwords, f \in FieldValues : Receive(fn, "POST", <<>>, pw, f)
    \/ \E r \in 1..Len(requests) : Handler(r)

SpecRelay == InitRelay /\ [][NextRelay]_vars

NextRunner ==
    \/ RunDemo
    \/ \E out \in ProviderOutcomes, writable \in BOOLEAN : FetchReturns(out, 1, writable)
    \/ InvokeReturns
    \/ InvokeUnreachable
    \/ \E res \in InsertResults, writable \in BOOLEAN : InsertReturns(res, 1, writable)
    \/ Refresh
    \/ \E i \in 1..Len(loads), res \in LoadResults : LoadReturns(i, res)
    \/ \E r \in 1..Len(requests) : Handler(r)

SpecRunner == InitRunner /\ [][NextRunner]_vars

\* the awaited calls of the run in progress settle and its continuation runs:
\* the fetch, the invocation (and the function behind it), the insert
RunSettles ==
    \/ \E out \in ProviderOutcomes, writable \in BOOLEAN : FetchReturns(out, 1, writable)
    \/ InvokeReturns
    \/ InvokeUnreachable
    \/ \E res \in InsertResults, writable \in BOOLEAN : InsertReturns(res, 1, writable)
    \/ \E r \in 1..Len(requests) : Handler(r)

\* every outstanding network call of a run eventually resolves or rejects
SpecRunnerFair == SpecRunner /\ WF_vars(RunSettles)

\* the model calls of the store specifications all succeed and localStorage
\* accepts every write
GoodOutcomes == {out \in ProviderOutcomes : CallSucceeded(out) /\ ~Falsy(out.text)}

NextStore ==
    \/ RunDemo
    \/ \E out \in GoodOutcomes, t \in cfg.clock : FetchReturns(out, t, TRUE)
    \/ \E res \in InsertResults, t \in cfg.clock : InsertReturns(res, t, TRUE)
    \/ Refresh
    \/ \E i \in 1..Len(loads), res \in LoadResults : LoadReturns(i, res)

SpecStore == InitStore /\ [][NextStore]_vars

SpecSkew == InitSkew /\ [][NextStore]_vars

\* the provider outcomes of a session: unreachable, rate limited, answered
SessionOutcomes ==
    {out \in ProviderOutcomes :
        \/ out.kind = "throw"
        \/ out.status = 429 /\ out.raw = "upstream unavailable"
        \/ out.status = 200 /\ ~Falsy(out.text)}

NextSession ==
    \/ RunDemo
    \/ \E out \in SessionOutcomes : FetchReturns(out, 1, TRUE)
    \/ InvokeReturns
    \/ InvokeUnreachable
    \/ \E res \in {"ok", "error"} : InsertReturns(res, 1, TRUE)
    \/ Refresh
    \/ \E i \in 1..Len(loads), res \in {"ok", "error"} : LoadReturns(i, res)
    \/ \E r \in 1..Len(requests) :
          \/ ParseBody(r)
          \/ VerifyAccessPassword(r)
          \/ ValidatePayload(r)
          \/ CheckApiKey(r)
          \/ callClaude(r)
          \/ \E out \in SessionOutcomes : ProviderResponds(r, out)

SpecSession == InitSession /\ [][NextSession]_vars

\* the runner of the admin view: tabs, runs, the history list and its entries
NextPanel ==
    \/ RunDemo
    \/ \E out \in GoodOutcomes : FetchReturns(out, 1, TRUE)
    \/ \E res \in {"ok", "error"} : InsertReturns(res, 1, TRUE)
    \/ Refresh
    \/ \E i \in 1..Len(loads), res \in {"ok", "error"} : LoadReturns(i, res)
    \/ \E d \in Demos : SelectDemo(d)
    \/ \E j \in 1..Len(previousRuns) : loadRun(j)

SpecPanel == InitPanel /\ [][NextPanel]_vars

\* the settings dialog of the developer view
NextKeyDialog ==
    \/ OpenSettings
    \/ CloseSettings
    \/ \E k \in TypedKeys : setApiKey(k)
    \/ handleSave
    \/ handleClear

SpecKeyDialog == InitKeyDialog /\ [][NextKeyDialog]_vars

Spec == SpecRunner


(***************************************************************************)
(* Access gate                                                             *)
(***************************************************************************)

\* C1: in every relay function the password check precedes payload
\* validation: a request whose accessPassword differs from
\* DEMO_ACCESS_PASSWORD never reaches validation and is never answered 400,
\* and once its body has been read it is answered 401 with the authorization
\* error, whether or not the required payload field is present.
C1_AuthPrecedesValidation ==
    \A r \in 1..Len(requests) :
        LET q == requests[r] IN
        (q.method = "POST"
           /\ (q.parseError # <<>> \/ q.accessPassword # env.DEMO_ACCESS_PASSWORD))
        => /\ q.resp.status # 400
           /\ q.pc \in {"parse", "gate", "done", "dropped"}
           /\ (q.pc = "done" /\ q.parseError = <<>>
                 => /\ q.resp.status = 401
                    /\ q.resp.error =
                         <<"Invalid demo access password. Please enter the correct password.">>)

\* a wrong password sent without the required payload field was answered 401
C1_Witness ==
    \E r \in 1..Len(requests) :
        /\ requests[r].accessPassword = "wrong"
        /\ requests[r].field = Undefined
        /\ requests[r].pc = "done"
        /\ requests[r].resp.status = 401

\* C2: a request with a wrong accessPassword is answered 401 and makes no
\* provider call; whenever a request has issued a provider call, its
\* accessPassword is non-empty and equal to the configured secret.
C2_NoCallWithoutPassword ==
    \A r \in 1..Len(requests) :
        LET q == requests[r] IN
        /\ (q.calls # <<>> \/ q.pc \in {"call", "await"})
             => /\ q.accessPassword \notin {Undefined, ""}
                /\ q.accessPassword = env.DEMO_ACCESS_PASSWORD
        /\ (q.method = "POST" /\ q.parseError = <<>> /\ q.accessPassword = "wrong")
             => /\ q.calls = <<>>
                /\ q.results = <<>>
                /\ (q.pc = "done" => q.resp.status = 401)

\* a wrong password was answered 401 without a call although the payload was
\* valid and the provider credential configured
C2_Witness ==
    \E r \in 1..Len(requests) :
        /\ requests[r].accessPassword = "wrong"
        /\ requests[r].field = "data"
        /\ env.ANTHROPIC_API_KEY # Undefined
        /\ env.DEMO_ACCESS_PASSWORD = "s3cret"
        /\ requests[r].pc = "done"
        /\ requests[r].resp.status = 401
        /\ requests[r].calls = <<>>

(***************************************************************************)
(* Multi-agent chain                                                       *)
(***************************************************************************)

\* C3: in the multi-agent relay, when the second (reliability) call fails no
\* third call is made and the request ends with that failure: a non-2xx
\* answer without any result field, 429 or 401 when the provider answered so
\* and 500 otherwise.
C3_ReliabilityFailureAborts ==
    \A r \in 1..Len(requests) :
        LET q == requests[r] IN
        (q.fn = "multi-agent" /\ Len(q.results) >= 2
           /\ ~(q.results[2].kind = "http" /\ q.results[2].status \in 200..299
                  /\ q.results[2].json))
        => /\ Len(q.calls) = 2
           /\ Len(q.results) = 2
           /\ q.pc = "done"
           /\ q.resp.status = (IF q.results[2].kind = "http" /\ q.results[2].status \in {401, 429}
                               THEN q.results[2].status ELSE 500)
           /\ DOMAIN q.resp.data = {}
           /\ q.resp.error # <<>>

\* the reliability call failed after a successful cost analysis
C3_Witness ==
    \E r \in 1..Len(requests) :
        /\ requests[r].fn = "multi-agent"
        /\ Len(requests[r].results) = 2
        /\ requests[r].results[1].status = 200
        /\ requests[r].results[2].status = 500
        /\ requests[r].pc = "done"
        /\ requests[r].resp.status = 500

\* C4: the multi-agent relay issues its calls in the order cost analysis,
\* reliability assessment, synthesis, one at a time, each only after the
\* previous one succeeded and never more than three; a failed call ends the
\* request with an error answer, and the success answer is produced only
\* after all three calls succeeded.
C4_ChainOrder ==
    \A r \in 1..Len(requests) :
        LET q == requests[r]
            order == <<"cost_analysis", "reliability_assessment", "final_recommendation">>
            ok(out) == out.kind = "http" /\ out.status \in 200..299 /\ out.json
        IN
        q.fn = "multi-agent" =>
           /\ Len(q.calls) <= 3
           /\ \A i \in 1..Len(q.calls) : q.calls[i] = order[i]
           /\ Len(q.results) <= Len(q.calls)
           /\ Len(q.calls) <= Len(q.results) + 1
           /\ (Len(q.calls) = Len(q.results) + 1 <=> q.pc = "await")
           /\ \A i \in 1..Len(q.results) : i < Len(q.calls) => ok(q.results[i])
           /\ (Len(q.results) > 0 /\ ~ok(q.results[Len(q.results)])
                 => q.pc = "done" /\ q.resp.status \in {401, 429, 500})
           /\ (q.method = "POST" /\ q.resp.status = 200
                 => /\ Len(q.results) = 3
                    /\ \A i \in 1..3 : ok(q.results[i])
                    /\ DOMAIN q.resp.data = {"cost_analysis", "reliability_assessment",
                                             "final_recommendation", "model_used"})

\* a multi-agent request went through all three stages and was answered 200
C4_Witness ==
    \E r \in 1..Len(requests) :
        /\ requests[r].fn = "multi-agent"
        /\ requests[r].calls = <<"cost_analysis", "reliability_assessment", "final_recommendation">>
        /\ Len(requests[r].results) = 3
        /\ requests[r].pc = "done"
        /\ requests[r].resp.status = 200


(***************************************************************************)
(* Run store and model gateway                                             *)
(***************************************************************************)

\* C5: with the remote store configured, once the insert of a run has
\* failed, every list started afterwards returns that run, whether the list
\* is answered by the remote store or falls back to the on-device list.
C5_FailedInsertStillListed ==
    [][\A i \in 1..Len(loads) :
          loads' = RemoveAt(loads, i)
          => \A k \in loads[i].after :
                \E j \in 1..Len(previousRuns') : previousRuns'[j].run = k]_vars

\* C6: a failed model call is never persisted: every stored run, and every
\* run whose insert is pending, had a 2xx answer from the model endpoint (in
\* the relay variant: from the last provider call), and a finished run whose
\* call failed shows no completion line.
C6_FailedCallNotPersisted ==
    LET ok(k) == runLog[k].out.kind = "http" /\ runLog[k].out.status \in 200..299
        stored == {row.run : row \in remote}
                    \cup UNION {{localStore[d][i].run : i \in 1..Len(localStore[d])} : d \in Demos}
    IN /\ \A k \in 1..Len(runLog) : k \in stored => ok(k)
       /\ (run.pc = "insert" => ok(run.no))
       /\ \A k \in 1..Len(runLog) :
            (~ok(k) /\ run.no # k)
            => /\ runLog[k].lines # <<>>
               /\ \A i \in 1..Len(runLog[k].lines) :
                     runLog[k].lines[i] # <<"<success>Analysis complete!</success>">>

\* a run ended on HTTP 429 and nothing was stored for it
C6_Witness ==
    \E k \in 1..Len(runLog) :
        /\ runLog[k].out.status = 429
        /\ run.pc = "idle"
        /\ runLog[k].lines # <<>>
        /\ \A row \in remote : row.run # k
        /\ \A d \in Demos : \A i \in 1..Len(localStore[d]) : localStore[d][i].run # k

\* C7: the history list shown for a demo, and the on-device list behind it,
\* never hold more than 20 records.
C7_AtMostTwenty ==
    /\ Len(previousRuns) <= 20
    /\ \A d \in Demos : Len(localStore[d]) <= 20

\* a run was saved to an on-device list that already held 20 records
C7_Witness ==
    /\ Len(previousRuns) = 20
    /\ previousRuns[1].run >= 1
    /\ previousRuns[1].id[1] = "local"
    /\ previousRuns[20].run = 0 - 19

\* C8: the history list shown for a demo is sorted by created_at in
\* descending order, whatever the order of the timestamps saved.
C8_SortedDescending ==
    \A i \in 1..(Len(previousRuns) - 1) :
        previousRuns[i].created_at >= previousRuns[i + 1].created_at

\* C9: in every transport variant a model call that ended with HTTP 429 is
\* shown as rate limited and one that ended with HTTP 401 as an invalid
\* credential.
C9_Classification ==
    \A k \in 1..Len(runLog) :
        LET e == runLog[k] IN
        (e.lines # <<>> /\ e.out.kind = "http")
        => /\ (e.out.status = 429
                 => \E i \in 1..Len(e.lines) :
                       e.lines[i] = <<"<error>Error: Rate limit exceeded</error>">>)
           /\ (e.out.status = 401
                 => \E i \in 1..Len(e.lines) :
                       \/ e.lines[i][1] = "<error>Error: Invalid API key ("
                       \/ e.lines[i] = <<"<error>Error: Invalid API key</error>">>
                       \/ Includes(e.lines[i],
                                   <<"Invalid API key. Please check your Anthropic API key.">>))

C11_NoAutomaticRetry ==
    LET failed(out) == ~(out.kind = "http" /\ out.status \in 200..299 /\ out.json)
    IN
    /\ \A r \in 1..Len(requests) :
          LET q == requests[r] IN
          /\ Len(q.calls) <= (IF q.fn = "multi-agent" THEN 3 ELSE 1)
          /\ \A i, j \in 1..Len(q.calls) : i # j => q.calls[i] # q.calls[j]
          /\ \A i \in 1..Len(q.results) :
                failed(q.results[i])
                => /\ i = Len(q.results)
                   /\ Len(q.calls) = i
                   /\ q.pc = "done"
          /\ (q.origin = "runner"
                => Cardinality({k \in 1..Len(runLog) : runLog[k].req = r}) = 1)
    /\ \A k \in 1..Len(runLog) :
          LET e == runLog[k] IN
          /\ (e.transport \in {"direct", "dev-proxy"} => e.fetches = 1 /\ e.req = 0)
          /\ (e.transport = "relay" => e.fetches = 0 /\ e.req \in 1..Len(requests))
          /\ (e.lines # <<>> /\ failed(e.out))
                => /\ run.no # k
                   /\ (e.req # 0 => requests[e.req].pc \in {"done", "dropped"})
    /\ (~isRunning => run.pc = "idle")

\* a multi-agent run ended after its second provider call failed
C11_Witness ==
    \E k \in 1..Len(runLog) :
        /\ runLog[k].transport = "relay"
        /\ runLog[k].lines # <<>>
        /\ requests[runLog[k].req].fn = "multi-agent"
        /\ Len(requests[runLog[k].req].calls) = 2
        /\ runLog[k].out.status = 429
        /\ run.pc = "idle"

\* C12: without the provider credential no request reaches the model
\* endpoint: a browser runner whose API key is empty never sets isRunning
\* and starts no run, and a relay function whose ANTHROPIC_API_KEY is unset
\* makes no provider call and answers 500 to a request that passed the
\* password check and the payload validation.
C12_NoCallWithoutCredential ==
    /\ (\/ build = "fallback" /\ cfg.apiKey = ""
        \/ build = "cloud" /\ cfg.executionMode = "local" /\ cfg.localApiKey = "")
         => /\ ~isRunning
            /\ run.pc = "idle"
            /\ runLog = <<>>
    /\ env.ANTHROPIC_API_KEY \in {Undefined, ""}
         => \A r \in 1..Len(requests) :
               LET q == requests[r] IN
               /\ q.calls = <<>>
               /\ q.results = <<>>
               /\ q.pc \notin {"call", "await"}
               /\ (q.pc = "done" /\ q.method = "POST" /\ q.parseError = <<>>
                     /\ q.accessPassword \notin {Undefined, ""}
                     /\ q.accessPassword = env.DEMO_ACCESS_PASSWORD
                     /\ q.field \notin {Undefined, ""})
                    => /\ q.resp.status = 500
                       /\ q.resp.error = <<"Claude API key not configured">>

\* a request with the right password and a payload was answered 500 by a
\* function without the provider credential
C12_Witness ==
    /\ env.ANTHROPIC_API_KEY = Undefined
    /\ \E r \in 1..Len(requests) :
          /\ requests[r].accessPassword = "s3cret"
          /\ requests[r].field = "data"
          /\ requests[r].pc = "done"
          /\ requests[r].resp.status = 500
          /\ requests[r].calls = <<>>


(***************************************************************************)
(* Storage failures                                                        *)
(***************************************************************************)

\* C13: in the runner with the on-device fallback, a run whose model call
\* succeeded and whose remote insert failed (error result or exception) is
\* written to the on-device list and reported as successful: its lines are
\* the completion lines ending with the model's result text, never an error.
C13_StorageFailureDegraded ==
    \A k \in 1..Len(runLog) :
        LET e == runLog[k] IN
        (build = "fallback" /\ e.insert \in {"error", "throw"} /\ e.lines # <<>>)
        => /\ e.lines[1] = <<"<success>Analysis complete!</success>">>
           /\ e.lines[Len(e.lines)] =
                << IF e.out.text \in {Undefined, ""}
                   THEN "No response generated" ELSE e.out.text >>
           /\ \E i \in 1..Len(localStore[demo]) : localStore[demo][i].run = k

C19_MissingFieldRejected ==
    \A r \in 1..Len(requests) :
        LET q == requests[r] IN
        (q.method = "POST" /\ q.parseError = <<>>
           /\ q.accessPassword \notin {Undefined, ""}
           /\ q.accessPassword = env.DEMO_ACCESS_PASSWORD
           /\ q.field \in {Undefined, ""})
        => /\ q.calls = <<>>
           /\ q.results = <<>>
           /\ q.pc \in {"parse", "gate", "validate", "done"}
           /\ (q.pc = "done"
                 => /\ q.resp.status = 400
                    /\ q.resp.error =
                         << (CASE q.fn = "multi-agent" -> "infrastructureState"
                               [] q.fn = "release-readiness" -> "qualityMetrics"
                               [] q.fn = "workflow-diagnostic" -> "errorLog"),
                            " is required" >>)

\* a request with the right password and no payload field was answered 400
\* by a function whose provider credential is configured
C19_Witness ==
    /\ env.ANTHROPIC_API_KEY = "sk-ant-relay"
    /\ \E r \in 1..Len(requests) :
          /\ requests[r].accessPassword = "s3cret"
          /\ env.DEMO_ACCESS_PASSWORD = "s3cret"
          /\ requests[r].field = Undefined
          /\ requests[r].pc = "done"
          /\ requests[r].resp.status = 400
          /\ requests[r].calls = <<>>


(***************************************************************************)
(* Run records                                                             *)
(***************************************************************************)

\* C15: every record a run wrote (remote row or on-device entry) has
\* execution_mode 'cloud' exactly when the run went through the relay and
\* 'local' exactly when the browser called the model endpoint, and its output
\* holds the text of the 200 answer (per stage in the relay variant), or the
\* variant's default text when the answer carried none.
C15_ModeMatchesTransport ==
    LET stored == remote \cup UNION {{localStore[d][i] : i \in 1..Len(localStore[d])} : d \in Demos}
        textOr(out, default) == IF out.text \in {Undefined, ""} THEN default ELSE out.text
        stages(fn) == CASE fn = "multi-agent" ->
                              <<"cost_analysis", "reliability_assessment", "final_recommendation">>
                        [] fn = "release-readiness" -> <<"evaluation">>
                        [] fn = "workflow-diagnostic" -> <<"diagnosis">>
        default(fn) == CASE fn = "multi-agent" -> ""
                         [] fn = "release-readiness" -> "No evaluation generated"
                         [] fn = "workflow-diagnostic" -> "No diagnosis generated"
    IN
    \A rec \in stored :
        rec.run >= 1 =>
          LET e == runLog[rec.run] IN
          /\ rec.demo_id = demo
          /\ (rec.execution_mode = "cloud" <=> e.transport = "relay")
          /\ (rec.execution_mode = "local" <=> e.transport \in {"direct", "dev-proxy"})
          /\ IF e.transport = "relay"
             THEN LET q == requests[e.req] IN
                  /\ q.resp.status = 200
                  /\ Len(q.results) = Len(stages(q.fn))
                  /\ \A i \in 1..Len(q.results) :
                        /\ q.results[i].status = 200
                        /\ rec.output_data[stages(q.fn)[i]] = textOr(q.results[i], default(q.fn))
             ELSE /\ e.out.status = 200
                  /\ rec.output_data["result"] = textOr(e.out, "No response generated")

\* a run through the multi-agent relay was stored as a cloud run holding the
\* provider's text
C15_Witness ==
    \E row \in remote :
        /\ row.run = 1
        /\ row.demo_id = "multi-agent"
        /\ row.execution_mode = "cloud"
        /\ runLog[1].transport = "relay"
        /\ row.output_data["final_recommendation"] = "Root cause: ..."

\* C16: every finished run whose model call succeeded has exactly one
\* record: one row of demo_runs or one entry of the on-device list, never
\* none and never one in each.
C16_ExactlyOneRecord ==
    \A k \in 1..Len(runLog) :
        LET e == runLog[k]
            rows == {row \in remote : row.run = k}
            entries == {<<d, i>> \in Demos \X (1..LocalCap) :
                          i <= Len(localStore[d]) /\ localStore[d][i].run = k}
        IN (e.lines # <<>> /\ e.out.kind = "http" /\ e.out.status \in 200..299 /\ e.out.json)
           => Cardinality(rows) + Cardinality(entries) = 1


\* C20 as stated: once a record has been stored, remotely or in the
\* on-device list, no step changes or deletes it.
C20_RecordsNeverChange ==
    [][/\ remote \subseteq remote'
       /\ \A d \in Demos : \A i \in 1..Len(localStore[d]) :
             \E j \in 1..Len(localStore'[d]) : localStore'[d][j] = localStore[d][i]
      ]_vars

\* C20 amended: a remote row is never changed or deleted and no field of an
\* on-device record ever changes; an on-device record leaves its list only
\* by eviction, as the 20th record of a list to which a new record is
\* prepended, and the other records keep their order behind the new one.
C20_ImmutableUntilEvicted ==
    [][/\ remote \subseteq remote'
       /\ \A d \in Demos :
             \/ localStore'[d] = localStore[d]
             \/ /\ Len(localStore'[d]) = (IF Len(localStore[d]) < 20
                                          THEN Len(localStore[d]) + 1 ELSE 20)
                /\ \A i \in 1..Len(localStore[d]) :
                      i < 20 => localStore'[d][i + 1] = localStore[d][i]
                /\ \A i \in 1..Len(localStore[d]) :
                      localStore'[d][1].id # localStore[d][i].id
      ]_vars

\* a save to a full on-device list has evicted its oldest record
C20_Witness ==
    /\ Len(localStore[demo]) = 20
    /\ localStore[demo][1].run = 1
    /\ localStore[demo][20].run = 0 - 19
    /\ \A i \in 1..20 : localStore[demo][i].run # 0 - 20


(***************************************************************************)
(* Runs in progress                                                        *)
(***************************************************************************)

\* C17: when the outstanding network calls of a run settle, whatever their
\* outcome, the run ends: isRunning becomes false again, no run is in
\* progress and, the credential being configured, the Run button is enabled.
C17_UsableAfterEveryOutcome ==
    isRunning ~>
        (/\ ~isRunning
         /\ run.pc = "idle"
         /\ \/ build = "fallback" /\ cfg.apiKey # ""
            \/ build = "cloud" /\ cfg.executionMode = "local" /\ cfg.localApiKey # ""
            \/ build = "cloud" /\ cfg.executionMode = "cloud" /\ cfg.demoPassword # "")

\* a run ended on HTTP 401 and the runner is idle again
C17_Witness ==
    /\ ~isRunning
    /\ run.pc = "idle"
    /\ \E k \in 1..Len(runLog) :
          /\ runLog[k].out.status = 401
          /\ runLog[k].lines # <<>>

\* C18: a runner never has two runs in progress: at most one run is
\* unfinished, it is the run isRunning stands for, at most one model request
\* of the runner is in flight, and a run in progress has started no other.
C18_OneCallInFlight ==
    LET unfinished == {k \in 1..Len(runLog) : runLog[k].lines = <<>>}
        fetching == {k \in unfinished :
                        runLog[k].transport # "relay" /\ runLog[k].out.kind = "none"}
        calling == {r \in 1..Len(requests) : requests[r].pc = "await"}
    IN /\ Cardinality(unfinished) <= 1
       /\ Cardinality(fetching) + Cardinality(calling) <= 1
       /\ (unfinished # {} <=> isRunning)
       /\ (isRunning => unfinished = {run.no} /\ run.pc # "idle")
       /\ \A r \in calling : run.pc = "invoke" /\ run.req = r

\* a second run is in progress after the first one has ended
C18_Witness ==
    /\ Len(runLog) = 2
    /\ runLog[1].lines # <<>>
    /\ runLog[2].lines = <<>>
    /\ isRunning
    /\ run.no = 2
    /\ run.pc \in {"fetch", "invoke"}


(***************************************************************************)
(* Run store contract                                                      *)
(***************************************************************************)

\* C21: every run record of the remote table and of the on-device lists has
\* a demo_id among workflow-diagnostic, release-readiness, multi-agent and
\* developer-portal.
C21_KnownDemoIds ==
    LET known == {"workflow-diagnostic", "release-readiness", "multi-agent", "developer-portal"}
    IN /\ \A row \in remote : row.demo_id \in known
       /\ \A d \in DOMAIN localStore : \A i \in 1..Len(localStore[d]) :
             /\ localStore[d][i].demo_id \in known
             /\ localStore[d][i].demo_id = d
       /\ (run.pc # "idle" => run.demo \in known)

\* a run of the developer-portal demo was stored in the remote table and one
\* of another demo in the on-device list
C21_Witness ==
    \/ \E row \in remote : row.run = 1 /\ row.demo_id = "developer-portal"
                              /\ row.execution_mode = "local"
    \/ \E i \in 1..Len(localStore["release-readiness"]) :
          localStore["release-readiness"][i].run = 1


\* C22: a save to the on-device list puts the new record first and keeps the
\* previous records in their order behind it; a list that already holds 20
\* records becomes the new record followed by its previous first 19, the
\* oldest (last) record being the one evicted.  Every save of the fallback
\* runner that goes to the on-device list does change that list.
C22_PrependEvictOldest ==
    [][/\ \A d \in Demos :
             localStore'[d] # localStore[d] =>
                /\ run.pc # "idle" /\ run.demo = d
                /\ Len(localStore'[d]) >= 1
                /\ localStore'[d][1].run = run.no
                /\ localStore'[d][1].demo_id = d
                /\ \A i \in 1..Len(localStore[d]) : localStore'[d][1] # localStore[d][i]
                /\ localStore'[d] =
                      <<localStore'[d][1]>> \o
                         (IF Len(localStore[d]) >= 20
                          THEN SubSeq(localStore[d], 1, 19) ELSE localStore[d])
                /\ previousRuns' = localStore'[d]
       /\ (/\ run.pc # "idle" /\ run'.pc = "idle"
           /\ \/ ~cfg.supabaseConfigured
              \/ run.pc = "insert" /\ runLog'[run.no].insert \in {"error", "throw"})
          => localStore'[run.demo] # localStore[run.demo]
      ]_vars

\* two runs were saved, one after the other, to an on-device list that held
\* 20 records: the two oldest were evicted
C22_Witness ==
    /\ Len(localStore[demo]) = 20
    /\ localStore[demo][1].run = 2
    /\ localStore[demo][2].run = 1
    /\ localStore[demo][3].run = 0 - 1
    /\ localStore[demo][20].run = 0 - 18


\* C23: the backing of the run store follows the configuration.  With the
\* remote store not configured no remote request is ever outstanding (no
\* select, no insert), the remote table is never written, and saves and
\* lists work on the on-device list alone.  With it configured a finished
\* model call always goes on to the remote insert, the list shown changes
\* only when a remote select settles or a failed insert falls back, the
\* on-device list is written only by a step that settles an insert, and an
\* insert that succeeded leaves every on-device list unchanged.
C23_BackingByConfiguration ==
    [][IF ~cfg.supabaseConfigured
       THEN /\ loads = <<>> /\ loads' = <<>>
            /\ ~isLoadingHistory /\ ~isLoadingHistory'
            /\ run.pc # "insert" /\ run'.pc # "insert"
            /\ remote' = remote
            /\ (run.pc = "fetch" /\ run'.pc = "idle"
                   => /\ localStore'[run.demo] # localStore[run.demo]
                      /\ previousRuns' = localStore'[run.demo])
            /\ (previousRuns' # previousRuns
                   => previousRuns' = localStore'[demo])
       ELSE /\ (run.pc = "fetch" /\ run' # run => run'.pc = "insert")
            /\ (run.pc = "fetch" => /\ remote' = remote
                                    /\ localStore' = localStore)
            /\ (localStore' # localStore
                   => /\ run.pc = "insert"
                      /\ runLog'[run.no].insert \in {"error", "throw"})
            /\ (run.pc = "insert" /\ run'.pc = "idle" /\ runLog'[run.no].insert = "ok"
                   => /\ localStore' = localStore
                      /\ remote' # remote
                      /\ Len(loads') = Len(loads) + 1)
            /\ (previousRuns' # previousRuns
                   => \/ Len(loads') < Len(loads)
                      \/ localStore' # localStore)
            /\ (run' = run /\ Len(loads') > Len(loads)
                   => previousRuns' = previousRuns /\ isLoadingHistory')
      ]_vars

\* with the remote store configured, a first run was inserted remotely and
\* left the on-device list as it was; the insert of a second failed and only
\* that run was added to the on-device list
C23_Witness ==
    /\ cfg.supabaseConfigured
    /\ Len(runLog) = 2
    /\ runLog[1].insert = "ok"
    /\ runLog[2].insert = "error"
    /\ \E row \in remote : row.run = 1
    /\ Len(localStore[demo]) = 1
    /\ localStore[demo][1].run = 2


(***************************************************************************)
(* The history panel                                                       *)
(***************************************************************************)

\* C24: whenever no history load is in flight, every record of the history
\* list shown (previousRuns) has the demo_id of the demo currently selected.
C24_ListOfSelectedDemo ==
    (loads = <<>> /\ ~isLoadingHistory) =>
        \A i \in 1..Len(previousRuns) : previousRuns[i].demo_id = demo

\* C25: whenever a saved run is selected (the panel is titled 'Loaded
\* Output'), the output lines are exactly the lines loadRun produced for that
\* record.
C25_LoadedOutputUntouched ==
    selectedRun # NoRun => output = LoadedLines(selectedRun)


(***************************************************************************)
(* Failures of the on-device write                                         *)
(***************************************************************************)

\* C26: in the runner with the on-device fallback, every run whose model
\* call succeeded ends with the completion lines and the model's result text
\* as the last line of its output, and none of its lines is an error line,
\* whether or not localStorage accepted the write of the history list.
C26_WriteFailureNotARunFailure ==
    \A k \in 1..Len(runLog) :
        LET e == runLog[k] IN
        (build = "fallback" /\ CallSucceeded(e.out) /\ e.lines # <<>>)
        => /\ e.lines[1] = LineComplete
           /\ e.lines[Len(e.lines)] = <<OrElse(e.out.text, "No response generated")>>
           /\ \A i \in 1..Len(e.lines) : e.lines[i] \notin
                 {RunCatch(MsgQuota).lines[j] : j \in 1..Len(RunCatch(MsgQuota).lines)}


(***************************************************************************)
(* Relay status codes and the access gate                                  *)
(***************************************************************************)

\* C27: the multi-agent relay answers 429 only if one of its provider calls
\* returned status 429, and answers 401 only if the password check failed
\* or one of its provider calls returned status 401.
C27_StatusFromProviderOnly ==
    \A r \in 1..Len(requests) :
        LET req == requests[r] IN
        (req.fn = "multi-agent" /\ req.pc = "done") =>
            /\ req.resp.status = 429 =>
                  \E i \in 1..Len(req.results) :
                      req.results[i].kind = "http" /\ req.results[i].status = 429
            /\ req.resp.status = 401 =>
                  \/ /\ req.parseError = <<>>
                     /\ req.calls = <<>>
                     /\ \/ req.accessPassword \in {Undefined, ""}
                        \/ req.accessPassword # env.DEMO_ACCESS_PASSWORD
                  \/ \E i \in 1..Len(req.results) :
                      req.results[i].kind = "http" /\ req.results[i].status = 401


C29_StoredKeyWellFormed ==
    [][/\ keyDialog.present => StartsWithPrefix(keyDialog.stored)
       /\ keyDialog'.present => StartsWithPrefix(keyDialog'.stored)
       /\ (keyDialog'.last = "save" /\ ~StartsWithPrefix(keyDialog.apiKey)
              /\ \E i \in 1..Len(keyDialog.apiKey) : keyDialog.apiKey[i] # " ")
          => /\ keyDialog'.present = keyDialog.present
             /\ keyDialog'.stored = keyDialog.stored
             /\ keyDialog'.open
       /\ (keyDialog'.last = "save"
              /\ \A i \in 1..Len(keyDialog.apiKey) : keyDialog.apiKey[i] = " ")
          => ~keyDialog'.present
       /\ keyDialog'.last = "clear" => ~keyDialog'.present
      ]_vars

\* a key was stored, then a Save of a key without the prefix was refused:
\* the stored key is still there and the dialog is open
C29_Witness ==
    /\ keyDialog.last = "save"
    /\ keyDialog.open
    /\ keyDialog.present
    /\ keyDialog.stored = <<"sk-ant-", "x">>
    /\ keyDialog.apiKey = <<" ", "sk-ant-", "x">>
    /\ toast = <<ToastKeyInvalid>>

====
